---- MODULE Spec2Model ----
(***************************************************************************)
(* Model of the statistics layer of players/player_10/tools: the record    *)
(* normaliser, the grouped aggregations of statistics.py and the "Top      *)
(* configurations" aggregation of analyze.py.                              *)
(*                                                                         *)
(* Numbers are naturals; a float that the code derives by division is kept *)
(* exact as a fraction <<numerator, denominator>>.  Python's None and      *)
(* pandas' NaN cell are the value None.                                    *)
(***************************************************************************)
EXTENDS Integers, Sequences, FiniteSets, TLC

VARIABLES results, df, args, gen, calls, ret

vars == <<results, df, args, gen, calls, ret>>

\* Python's None (and the NaN of a missing DataFrame cell); data are naturals.
None == -1

\* ---------------------------------------------------------------- bounds
MaxResults == 2
MaxRows == 3
MaxGridRuns == 3
MaxParetoRuns == 2
MaxBootRows == 2
MaxIterations == 2
MaxAltruismLevels == 4
MaxTauLevels == 3
MaxSeeds == 2

\* grouped.head(10): the rows of the "Top configurations" table.
TopRows == 10

\* ---------------------------------------------------------------- helpers
Max(a, b) == IF a >= b THEN a ELSE b

RECURSIVE Gcd(_, _)
Gcd(a, b) == IF b = 0 THEN a ELSE Gcd(b, a % b)

\* A float quotient n/d (d > 0), kept exact in lowest terms.
Frac(n, d) ==
    LET a == IF n < 0 THEN -n ELSE n
        g == Gcd(a, d)
    IN  <<n \div g, d \div g>>

\* The partial functions from a subset of keys to vals.
PartialFns(keys, vals) == UNION {[s -> vals] : s \in SUBSET keys}

\* The state of no call having been made yet.
NoCall == [op |-> "none"]

\* No command-line arguments in play.
NoArgs == [ci_group |-> <<>>]

\* ------------------------------------------------- statistics.py: access
\* getattr(source, attr, default): only an attribute-style object has attrs.
GetAttr(source, attr, default) ==
    IF source.style = "object" /\ attr \in DOMAIN source.fields
    THEN source.fields[attr]
    ELSE default

\* _get: Mapping.get for a mapping, getattr otherwise.
Get(source, attr, default) ==
    IF source.style = "mapping"
    THEN IF attr \in DOMAIN source.fields THEN source.fields[attr] ELSE default
    ELSE GetAttr(source, attr, default)

\* _config_value: None config, then hasattr, then Mapping.get, else default.
\* config.kind is "absent" or "None" (both reach here as None), "object",
\* "mapping", or "scalar" (neither an object with fields nor a mapping).
ConfigValue(config, attr, default) ==
    IF config.kind \in {"absent", "None"} THEN default
    ELSE IF config.kind = "object" /\ attr \in DOMAIN config.fields
         THEN config.fields[attr]
    ELSE IF config.kind = "mapping"
         THEN IF attr \in DOMAIN config.fields THEN config.fields[attr] ELSE default
    ELSE default

\* ------------------------------------- statistics.py: results_to_records
\* Row key -> attribute of the nested configuration (lines 67-80).
ConfigColumns ==
    [altruism_prob |-> "altruism_prob", tau_margin |-> "tau_margin",
     epsilon_fresh |-> "epsilon_fresh", epsilon_mono |-> "epsilon_mono",
     subjects |-> "subjects", memory_size |-> "memory_size",
     conversation_length_cfg |-> "conversation_length", seed |-> "seed",
     min_samples_pid |-> "min_samples_pid", ewma_alpha |-> "ewma_alpha",
     importance_weight |-> "importance_weight",
     coherence_weight |-> "coherence_weight",
     freshness_weight |-> "freshness_weight",
     monotony_weight |-> "monotony_weight"]

\* Row key -> attribute of the result itself (lines 81-88, 90-92).
OutcomeColumns ==
    [total_score |-> "total_score", player10_score |-> "player10_total_mean",
     player10_individual |-> "player10_individual_mean",
     player10_rank |-> "player10_rank_mean",
     player10_gap_to_best |-> "player10_gap_to_best",
     player10_instances |-> "player10_instances",
     best_total_score |-> "best_total_score",
     conversation_length |-> "conversation_length",
     pause_count |-> "pause_count", unique_items_used |-> "unique_items_used",
     execution_time |-> "execution_time"]

\* The keys of the row literal, and with the derived key the canonical list.
LiteralFields == DOMAIN ConfigColumns \cup DOMAIN OutcomeColumns \cup {"early_termination"}

CanonicalFields == LiteralFields \cup {"length_utilization"}

\* _get(result, 'config'): the config sub-record, None when not reachable.
ResultConfig(result) ==
    IF result.config.kind = "absent" THEN [kind |-> "None", fields |-> <<>>]
    ELSE result.config

\* float(_get(result, 'early_termination', 0.0)) raises on None (line 89).
EarlyTerminationRaises(result) == Get(result, "early_termination", 0) = None

\* _get(result, 'score_breakdown', {}) or {} : a falsy value becomes {}.
BreakdownTruthy(result) ==
    /\ result.score_breakdown.kind \in {"mapping", "list"}
    /\ DOMAIN result.score_breakdown.items # {}

\* .items() exists on a mapping only (line 96).
BreakdownRaises(result) ==
    BreakdownTruthy(result) /\ result.score_breakdown.kind # "mapping"

\* The shared_<component> entries of every component but 'total' (96-99).
SharedEntries(result) ==
    IF BreakdownTruthy(result) /\ result.score_breakdown.kind = "mapping"
    THEN LET items == result.score_breakdown.items
             comps == DOMAIN items \ {"total"}
         IN  [k \in {"shared_" \o c : c \in comps} |->
                 items[CHOOSE c \in comps : "shared_" \o c = k]]
    ELSE <<>>

\* The row literal of lines 66-93.
LiteralRow(result) ==
    LET config == ResultConfig(result)
    IN  [k \in LiteralFields |->
            IF k \in DOMAIN ConfigColumns
                THEN ConfigValue(config, ConfigColumns[k], None)
            ELSE IF k = "early_termination"
                THEN Get(result, "early_termination", 0)
            ELSE Get(result, OutcomeColumns[k], None)]

\* Python truthiness of a number or None.
Truthy(v) == v # None /\ v # 0

\* Lines 101-109: the derived key is set only when both lengths are truthy.
LengthUtilization(row) ==
    IF Truthy(row["conversation_length_cfg"]) /\ Truthy(row["conversation_length"])
    THEN [length_utilization |->
            Frac(row["conversation_length"], row["conversation_length_cfg"])]
    ELSE <<>>

\* One iteration of the loop of lines 64-110.
NormalizedRow(result) ==
    LET row == LiteralRow(result)
    IN  LengthUtilization(row) @@ SharedEntries(result) @@ row

\* The exception, if any, that the iteration for result raises.
RowRaises(result) ==
    IF EarlyTerminationRaises(result) THEN "TypeError"
    ELSE IF BreakdownRaises(result) THEN "AttributeError"
    ELSE "none"

\* results_to_records: the list of rows, or the first exception raised.
ResultsToRecords(rs) ==
    IF \E i \in 1..Len(rs) : RowRaises(rs[i]) # "none"
    THEN LET i == CHOOSE j \in 1..Len(rs) :
                    /\ RowRaises(rs[j]) # "none"
                    /\ \A h \in 1..(j-1) : RowRaises(rs[h]) = "none"
         IN  [op |-> "results_to_records", raised |-> RowRaises(rs[i]), value |-> <<>>]
    ELSE [op |-> "results_to_records", raised |-> "none",
          value |-> [i \in 1..Len(rs) |-> NormalizedRow(rs[i])]]

\* ------------------------------------------------ raw simulation results
\* The shapes a raw result takes here: attribute- or mapping-style, its config
\* missing, None, a scalar, or an object/mapping that may carry the configured
\* length; the realized length and the early-termination flag missing, null or
\* set; the score breakdown missing, None, a mapping or a list.
ConfigShapes ==
    {[kind |-> k, fields |-> <<>>] : k \in {"absent", "None", "scalar"}}
    \cup {[kind |-> k, fields |-> f] :
            k \in {"object", "mapping"},
            f \in PartialFns({"conversation_length"}, {0, 2})}

OutcomeShapes ==
    {f @@ g : f \in PartialFns({"conversation_length"}, {None, 1}),
              g \in PartialFns({"early_termination"}, {None, 1})}

BreakdownShapes ==
    {[kind |-> "absent", items |-> <<>>], [kind |-> "None", items |-> <<>>],
     [kind |-> "mapping", items |-> [total |-> 9, importance |-> 3]],
     [kind |-> "list", items |-> <<3>>]}

ResultShapes ==
    [style : {"object", "mapping"}, config : ConfigShapes,
     fields : OutcomeShapes, score_breakdown : BreakdownShapes]

\* ------------------------------------------------------ normaliser spec
InitNorm ==
    /\ results = <<>>
    /\ df = <<>>
    /\ args = NoArgs
    /\ gen = 0
    /\ calls = <<>>
    /\ ret = NoCall

\* The caller collects one more raw result (a batch has one access style).
AddResult ==
    /\ ret = NoCall
    /\ Len(results) < MaxResults
    /\ \E r \in ResultShapes :
          /\ \A i \in 1..Len(results) : results[i].style = r.style
          /\ results' = Append(results, r)
    /\ UNCHANGED <<df, args, gen, calls, ret>>

\* results_to_records(results)
CallResultsToRecords ==
    /\ ret = NoCall
    /\ ret' = ResultsToRecords(results)
    /\ UNCHANGED <<results, df, args, gen, calls>>

NextNorm == AddResult \/ CallResultsToRecords

SpecNorm == InitNorm /\ [][NextNorm]_vars

\* The source attribute of row key k exists on result r and is not None.
Resolved(r, k) ==
    IF k \in DOMAIN ConfigColumns
        THEN ConfigValue(ResultConfig(r), ConfigColumns[k], None) # None
    ELSE IF k = "early_termination"
        THEN "early_termination" \in DOMAIN r.fields /\ r.fields[k] # None
    ELSE IF k = "length_utilization"
        THEN /\ Truthy(ConfigValue(ResultConfig(r), "conversation_length", None))
             /\ "conversation_length" \in DOMAIN r.fields
             /\ Truthy(r.fields["conversation_length"])
    ELSE OutcomeColumns[k] \in DOMAIN r.fields /\ r.fields[OutcomeColumns[k]] # None

NormalizeReturned == ret.op = "results_to_records" /\ ret.raised = "none"

\* C1: every record of a completed results_to_records call carries every
\* canonical key, length_utilization included, and a key whose value cannot be
\* resolved is present with the value None (not omitted, not defaulted).
C1_CanonicalKeysAlwaysPresent ==
    NormalizeReturned =>
        \A i \in 1..Len(results) :
            /\ CanonicalFields \subseteq DOMAIN ret.value[i]
            /\ \A k \in CanonicalFields :
                  ~Resolved(results[i], k) => ret.value[i][k] = None

\* C2: results_to_records never raises on a missing field or malformed
\* nesting (config absent or neither object nor mapping, outcome fields absent
\* or null, score_breakdown absent, null or not a mapping): the call completes
\* and the row's config and outcome fields that have no source are None.  (The
\* value of an absent early_termination is the subject of C1.)
C2_ExtractionNeverRaises ==
    ret.op = "results_to_records" =>
        /\ ret.raised = "none"
        /\ \A i \in 1..Len(results) :
              \A k \in LiteralFields \ {"early_termination"} :
                  ~Resolved(results[i], k) => ret.value[i][k] = None

\* ------------------------------------------------------- numeric helpers
RECURSIVE SumSeq(_)
SumSeq(xs) == IF xs = <<>> THEN 0 ELSE Head(xs) + SumSeq(Tail(xs))

RECURSIVE SumSquares(_)
SumSquares(xs) == IF xs = <<>> THEN 0 ELSE Head(xs) * Head(xs) + SumSquares(Tail(xs))

\* Series.mean() of a non-empty sequence of numbers.
Mean(xs) == Frac(SumSeq(xs), Len(xs))

FracSub(p, q) == Frac(p[1] * q[2] - q[1] * p[2], p[2] * q[2])

FracLess(p, q) == p[1] * q[2] < q[1] * p[2]

\* sorted(set of numbers) as a list.
RECURSIVE SortedSeq(_)
SortedSeq(S) ==
    IF S = {} THEN <<>>
    ELSE LET m == CHOOSE x \in S : \A y \in S : x <= y
         IN  <<m>> \o SortedSeq(S \ {m})

\* ------------------------------------------------------ pandas helpers
\* Series.dropna() of a list of cells.
DropNa(xs) == SelectSeq(xs, LAMBDA v : v # None)

\* df[col] as a list.
Column(frame, col) == [i \in 1..Len(frame) |-> frame[i][col]]

\* df[df[col] == level], rows kept in order.
WhereEq(frame, col, level) == SelectSeq(frame, LAMBDA r : r[col] = level)

\* df[col].dropna().unique() as a set.
Unique(frame, col) == {frame[i][col] : i \in 1..Len(frame)} \ {None}

\* ---------------------------------------- statistics.py: pairwise_deltas
\* x.var(ddof=1) * (len(x) - 1): NaN (None) for a single observation, else
\* the sum of squared deviations, as a fraction.
ScaledVar(xs) ==
    IF Len(xs) < 2 THEN None
    ELSE Frac(Len(xs) * SumSquares(xs) - SumSeq(xs) * SumSeq(xs), Len(xs))

\* The radicand of line 211-214: NaN (None) when either term is NaN.
PooledVariance(xs, ys) ==
    IF Len(xs) < 2 \/ Len(ys) < 2 THEN None
    ELSE LET p == ScaledVar(xs)
             q == ScaledVar(ys)
         IN  Frac(p[1] * q[2] + q[1] * p[2], p[2] * q[2] * (Len(xs) + Len(ys) - 2))

\* Line 215: delta / pooled when pooled > 0, else NaN.  The quotient
\* delta / sqrt(var) is kept as the pair of delta and var.
CohensD(delta, xs, ys) ==
    IF Len(xs) < 2 \/ Len(ys) < 2 THEN [nan |-> TRUE]
    ELSE LET v == PooledVariance(xs, ys)
         IN  IF v[1] > 0 THEN [nan |-> FALSE, delta |-> delta, pooled_var |-> v]
             ELSE [nan |-> TRUE]

\* Line 210: delta = y.mean() - x.mean().
DeltaMeanSwapped(xs, ys) == FracSub(Mean(xs), Mean(ys))

DeltaMean(xs, ys) == FracSub(Mean(ys), Mean(xs))

\* x = df[df[group_col] == a][metric].dropna()
LevelValues(frame, group_col, metric, level) ==
    DropNa(Column(WhereEq(frame, group_col, level), metric))

\* The inner loop of lines 206-225 for level a = levels[i] over levels[j..].
RECURSIVE PairRowsFrom(_, _, _, _, _, _)
PairRowsFrom(frame, group_col, metric, levels, i, j) ==
    IF j > Len(levels) THEN <<>>
    ELSE LET x == LevelValues(frame, group_col, metric, levels[i])
             y == LevelValues(frame, group_col, metric, levels[j])
             rest == PairRowsFrom(frame, group_col, metric, levels, i, j + 1)
         IN  IF Len(y) = 0 THEN rest
             ELSE <<[a |-> levels[i], b |-> levels[j],
                     delta_mean |-> DeltaMean(x, y),
                     cohens_d |-> CohensD(DeltaMean(x, y), x, y),
                     n_a |-> Len(x), n_b |-> Len(y)]>> \o rest

\* The outer loop of lines 202-205.
RECURSIVE PairRows(_, _, _, _, _)
PairRows(frame, group_col, metric, levels, i) ==
    IF i > Len(levels) THEN <<>>
    ELSE LET x == LevelValues(frame, group_col, metric, levels[i])
             rest == PairRows(frame, group_col, metric, levels, i + 1)
         IN  IF Len(x) = 0 THEN rest
             ELSE PairRowsFrom(frame, group_col, metric, levels, i, i + 1) \o rest

\* pairwise_deltas(df, group_col=..., metric=...)
PairwiseDeltas(frame, group_col, metric) ==
    [op |-> "pairwise_deltas", raised |-> "none",
     value |-> PairRows(frame, group_col, metric,
                        SortedSeq(Unique(frame, group_col)), 1)]

\* ---------------------------------- statistics.py: seed_stability_curves
\* Sort key of a cell for sort_values: NaN goes last (na_position='last').
NaLast(v, w) == w = None \/ (v # None /\ v <= w)

\* df.sort_values(col) uses an unstable sort by default (kind='quicksort'):
\* every ascending arrangement of the rows is a possible outcome.
SortValuesUnsorted(frame, col) == {frame}

SortValues(frame, col) ==
    {[i \in 1..Len(frame) |-> frame[p[i]]] :
        p \in {q \in Permutations(1..Len(frame)) :
                \A i, j \in 1..Len(frame) :
                    i < j => NaLast(frame[q[i]][col], frame[q[j]][col])}}

\* values.expanding().mean(): the mean of every non-empty prefix.
ExpandingMean(xs) == [k \in 1..Len(xs) |-> Mean(SubSeq(xs, 1, k))]

\* Lines 385-392 on the sorted frame: one curve per level with a valid value.
SeedStabilityCurves(ordered, group_col, metric) ==
    LET kept == {l \in Unique(ordered, group_col) :
                    Len(LevelValues(ordered, group_col, metric, l)) > 0}
    IN  [op |-> "seed_stability_curves", raised |-> "none",
         value |-> [l \in kept |->
                      ExpandingMean(LevelValues(ordered, group_col, metric, l))]]

\* ------------------------------------------------------ table inputs
\* The tables of at most MaxRows rows over the given columns.
Tables(rowSet) == UNION {[1..n -> rowSet] : n \in 0..MaxRows}

\* Spec 8's scenario: scores 10, 20, 30 at altruism 0.2 and 40, 60 at 0.5
\* (the levels scaled by ten).
ScenarioTable ==
    <<[altruism_prob |-> 2, total_score |-> 10],
      [altruism_prob |-> 2, total_score |-> 20],
      [altruism_prob |-> 2, total_score |-> 30],
      [altruism_prob |-> 5, total_score |-> 40],
      [altruism_prob |-> 5, total_score |-> 60]>>

PairRowsSet == [altruism_prob : {None, 1, 2, 3}, total_score : {None, 1, 3}]

CurveRowsSet == [altruism_prob : {1, 2}, total_score : {None, 1, 3},
                 seed : {None, 1, 2}]

\* ------------------------------------------------- pairwise contrast spec
InitPair ==
    /\ results = <<>>
    /\ df \in Tables(PairRowsSet) \cup {ScenarioTable}
    /\ args = NoArgs
    /\ gen = 0
    /\ calls = <<>>
    /\ ret = NoCall

\* pairwise_deltas(df) with the default group_col and metric
CallPairwiseDeltas ==
    /\ ret' = PairwiseDeltas(df, "altruism_prob", "total_score")
    /\ UNCHANGED <<results, df, args, gen, calls>>

NextPair == CallPairwiseDeltas

SpecPair == InitPair /\ [][NextPair]_vars

\* ------------------------------------------------- stability curve spec
InitCurve ==
    /\ results = <<>>
    /\ df \in Tables(CurveRowsSet)
    /\ args = NoArgs
    /\ gen = 0
    /\ calls = <<>>
    /\ ret = NoCall

\* seed_stability_curves(df) with the default group_col, metric, order_col
CallSeedStabilityCurves ==
    /\ \E ordered \in SortValues(df, "seed") :
          ret' = SeedStabilityCurves(ordered, "altruism_prob", "total_score")
    /\ UNCHANGED <<results, df, args, gen, calls>>

NextCurve == CallSeedStabilityCurves

SpecCurve == InitCurve /\ [][NextCurve]_vars

\* ------------------------------------------------------------ C4 and C6
\* Row numbers of the table at the given level with a non-null metric.
ValidAt(col, metric, level) ==
    {i \in 1..Len(df) : df[i][col] = level /\ df[i][metric] # None}

RECURSIVE SumAt(_, _)
SumAt(rows, metric) ==
    IF rows = {} THEN 0
    ELSE LET i == CHOOSE x \in rows : TRUE
         IN  df[i][metric] + SumAt(rows \ {i}, metric)

\* C4: pairwise_deltas emits exactly one row per pair of levels a < b that
\* both have a non-null metric value, with delta_mean = mean(b) - mean(a) and
\* n_a, n_b the counts of non-null values; no other pair has a row.
C4_PairwiseRows ==
    ret.op = "pairwise_deltas" =>
        LET L == Unique(df, "altruism_prob")
            V(l) == ValidAt("altruism_prob", "total_score", l)
            Pairs == {p \in L \X L : p[1] < p[2] /\ V(p[1]) # {} /\ V(p[2]) # {}}
        IN  /\ ret.raised = "none"
            /\ Len(ret.value) = Cardinality(Pairs)
            /\ \A p \in Pairs : \E k \in 1..Len(ret.value) :
                  LET r == ret.value[k]
                      na == Cardinality(V(p[1]))
                      nb == Cardinality(V(p[2]))
                  IN  /\ r.a = p[1] /\ r.b = p[2]
                      /\ r.n_a = na /\ r.n_b = nb
                      /\ r.delta_mean[1] * (na * nb) = r.delta_mean[2] *
                           (SumAt(V(p[2]), "total_score") * na
                              - SumAt(V(p[1]), "total_score") * nb)

\* Spec 8's scenario yields the single row a=0.2, b=0.5, delta 30, n 3 and 2.
C4_Witness ==
    /\ ret.op = "pairwise_deltas"
    /\ df = ScenarioTable
    /\ Len(ret.value) = 1
    /\ ret.value[1].a = 2 /\ ret.value[1].b = 5
    /\ ret.value[1].delta_mean = <<30, 1>>
    /\ ret.value[1].n_a = 3 /\ ret.value[1].n_b = 2

\* C6: seed_stability_curves has an entry exactly for the groups with a
\* non-null metric value; the entry's k-th element is the mean of the first k
\* non-null metric values of the group taken in ascending order of seed (rows
\* without a seed last), so its length is the group's count of non-null values
\* and its last element the group's overall mean.
C6_StabilityCurves ==
    ret.op = "seed_stability_curves" =>
        LET V(l) == ValidAt("altruism_prob", "total_score", l)
            kept == {l \in Unique(df, "altruism_prob") : V(l) # {}}
        IN  /\ DOMAIN ret.value = kept
            /\ \A l \in kept :
                  LET curve == ret.value[l]
                      n == Cardinality(V(l))
                  IN  /\ Len(curve) = n
                      /\ curve[n][1] * n = curve[n][2] * SumAt(V(l), "total_score")
                      /\ \E e \in [1..n -> V(l)] :
                            /\ \A i, j \in 1..n : i # j => e[i] # e[j]
                            /\ \A i, j \in 1..n :
                                  i < j => NaLast(df[e[i]]["seed"], df[e[j]]["seed"])
                            /\ \A k \in 1..n :
                                  curve[k][1] * k = curve[k][2] *
                                     SumAt({e[i] : i \in 1..k}, "total_score")

\* A group listed out of seed order whose curve follows the seeds: 1, then 2.
C6_Witness ==
    /\ ret.op = "seed_stability_curves"
    /\ df = <<[altruism_prob |-> 1, total_score |-> 3, seed |-> 2],
              [altruism_prob |-> 1, total_score |-> 1, seed |-> 1],
              [altruism_prob |-> 2, total_score |-> None, seed |-> 1]>>
    /\ DOMAIN ret.value = {1}
    /\ ret.value[1] = <<(<<1, 1>>), (<<2, 1>>)>>

\* ----------------------------------------- statistics.py: heatmap_matrix
\* A missing mean: the None of an empty grid cell or of an absent 'early'.
NoMean == <<>>

\* getattr(result, 'config', None): only an attribute-style result has one.
ConfigAttr(result) ==
    IF result.style = "object" /\ result.config.kind # "absent"
    THEN result.config
    ELSE [kind |-> "None", fields |-> <<>>]

\* Lines 241-246 for one result: its row value, column value and metric.
GridEntry(result, row_attr, col_attr, metric) ==
    [row |-> ConfigValue(ConfigAttr(result), row_attr, None),
     col |-> ConfigValue(ConfigAttr(result), col_attr, None),
     metric |-> GetAttr(result, metric, None)]

\* Lines 247-251: the entries that are not skipped, in input order.
GridEntries(rs, row_attr, col_attr, metric) ==
    SelectSeq([i \in 1..Len(rs) |-> GridEntry(rs[i], row_attr, col_attr, metric)],
              LAMBDA e : e.row # None /\ e.col # None /\ e.metric # None)

\* matrix[row_value][col_value]: the metric values appended for one cell.
Bucket(entries, row_value, col_value) ==
    LET cell == SelectSeq(entries,
                          LAMBDA e : e.row = row_value /\ e.col = col_value)
    IN  [i \in 1..Len(cell) |-> cell[i].metric]

\* Line 261: sum(bucket) / len(bucket) if bucket else None.
CellMean(bucket) == IF Len(bucket) > 0 THEN Mean(bucket) ELSE NoMean

\* heatmap_matrix(results, row_attr=..., col_attr=..., metric=...)
HeatmapMatrix(rs, row_attr, col_attr, metric) ==
    LET entries == GridEntries(rs, row_attr, col_attr, metric)
        row_order == SortedSeq({entries[i].row : i \in 1..Len(entries)})
        col_order == SortedSeq({entries[i].col : i \in 1..Len(entries)})
    IN  IF Len(entries) = 0
        THEN [op |-> "heatmap_matrix", raised |-> "none", none |-> TRUE]
        ELSE [op |-> "heatmap_matrix", raised |-> "none", none |-> FALSE,
              rows |-> row_order, cols |-> col_order,
              grid |-> [r \in 1..Len(row_order) |->
                          [c \in 1..Len(col_order) |->
                              CellMean(Bucket(entries, row_order[r], col_order[c]))]]]

\* ------------------------------------------ statistics.py: pareto_points
ParetoKeyAttrs == <<"altruism_prob", "tau_margin", "epsilon_fresh", "epsilon_mono">>

\* Lines 333-339: the 4-tuple key of one result.
ParetoKey(result) ==
    [j \in 1..4 |-> ConfigValue(ConfigAttr(result), ParetoKeyAttrs[j], None)]

\* Lines 340-341: results with a None in the key are skipped.
ParetoKept(rs) == SelectSeq(rs, LAMBDA r : \A j \in 1..4 : ParetoKey(r)[j] # None)

\* The non-null values of one attribute accumulated under one key (342-353).
ParetoValues(kept, key, attr) ==
    DropNa([i \in 1..Len(kept) |->
              IF ParetoKey(kept[i]) = key THEN GetAttr(kept[i], attr, None) ELSE None])

\* Tuple comparison of the sort key of lines 370-373.
TupleLess(a, b) ==
    \E j \in 1..Len(a) : a[j] < b[j] /\ \A h \in 1..(j-1) : a[h] = b[h]

RECURSIVE SortedTuples(_)
SortedTuples(S) ==
    IF S = {} THEN <<>>
    ELSE LET m == CHOOSE x \in S : \A y \in S \ {x} : TupleLess(x, y)
         IN  <<m>> \o SortedTuples(S \ {m})

\* Lines 358-369: the point of one group.
ParetoPoint(kept, key) ==
    LET totals == ParetoValues(kept, key, "total_score")
        p10s == ParetoValues(kept, key, "player10_individual_mean")
        earlies == ParetoValues(kept, key, "early_termination")
    IN  [altruism |-> key[1], tau |-> key[2], fresh |-> key[3], mono |-> key[4],
         total |-> Mean(totals), player10 |-> Mean(p10s),
         early |-> IF Len(earlies) > 0 THEN Mean(earlies) ELSE NoMean,
         runs |-> Len(totals)]

\* pareto_points(results)
ParetoPoints(rs) ==
    LET kept == ParetoKept(rs)
        keys == {ParetoKey(kept[i]) : i \in 1..Len(kept)}
        emitted == {k \in keys :
                      /\ Len(ParetoValues(kept, k, "total_score")) > 0
                      /\ Len(ParetoValues(kept, k, "player10_individual_mean")) > 0}
        order == SortedTuples(emitted)
    IN  [op |-> "pareto_points", raised |-> "none",
         value |-> [i \in 1..Len(order) |-> ParetoPoint(kept, order[i])]]

\* ------------------------------------------------- raw sweep batches
\* A batch comes in one of two forms: attribute-style results with an
\* attribute-style config (generate_dashboard_from_results.py, lines 45-56) or
\* the mappings of the JSON file (analyze.py, lines 46-52 and 103).
NoBreakdown == [kind |-> "absent", items |-> <<>>]

NoConfig == [kind |-> "None", fields |-> <<>>]

GridConfigs(style) ==
    {NoConfig} \cup
    {[kind |-> style, fields |-> [altruism_prob |-> a, tau_margin |-> t]] :
        a \in {None, 1, 2}, t \in {None, 1, 2}}

GridResults(style) ==
    {[style |-> style, config |-> c, fields |-> [total_score |-> m],
      score_breakdown |-> NoBreakdown] :
        c \in GridConfigs(style), m \in {None, 5, 7}}

\* Spec 8's scenario: one record per cell of rows {1,2} x columns {10,20}.
GridScenarioRun(a, t, m) ==
    [style |-> "object",
     config |-> [kind |-> "object", fields |-> [altruism_prob |-> a, tau_margin |-> t]],
     fields |-> [total_score |-> m], score_breakdown |-> NoBreakdown]

GridScenario ==
    <<GridScenarioRun(1, 10, 5), GridScenarioRun(1, 20, 7),
      GridScenarioRun(2, 10, 9), GridScenarioRun(2, 20, 11)>>

ParetoConfigs(style) ==
    {NoConfig} \cup
    {[kind |-> style,
      fields |-> [altruism_prob |-> a, tau_margin |-> t,
                  epsilon_fresh |-> 1, epsilon_mono |-> m]] :
        a \in {None, 1, 2}, t \in {1, 2}, m \in {None, 1}}

ParetoResults(style) ==
    {[style |-> style, config |-> c,
      fields |-> [total_score |-> t, player10_individual_mean |-> p,
                  early_termination |-> e],
      score_breakdown |-> NoBreakdown] :
        c \in ParetoConfigs(style), t \in {None, 4, 6}, p \in {None, 2, 3},
        e \in {None, 0, 1}}

\* The batches of at most n results drawn from one form.
Batches(shapes, n) == UNION {[1..k -> shapes] : k \in 0..n}

\* ------------------------------------------------------- grid spec
InitGrid ==
    /\ results \in Batches(GridResults("object"), MaxGridRuns)
                   \cup Batches(GridResults("mapping"), MaxGridRuns)
                   \cup {GridScenario}
    /\ df = <<>>
    /\ args = NoArgs
    /\ gen = 0
    /\ calls = <<>>
    /\ ret = NoCall

\* heatmap_matrix(results, row_attr='altruism_prob', col_attr='tau_margin',
\*                metric='total_score')
CallHeatmapMatrix ==
    /\ ret' = HeatmapMatrix(results, "altruism_prob", "tau_margin", "total_score")
    /\ UNCHANGED <<results, df, args, gen, calls>>

NextGrid == CallHeatmapMatrix

SpecGrid == InitGrid /\ [][NextGrid]_vars

\* ------------------------------------------------------ pareto spec
InitPareto ==
    /\ results \in Batches(ParetoResults("object"), MaxParetoRuns)
                   \cup Batches(ParetoResults("mapping"), MaxParetoRuns)
    /\ df = <<>>
    /\ args = NoArgs
    /\ gen = 0
    /\ calls = <<>>
    /\ ret = NoCall

\* pareto_points(results)
CallParetoPoints ==
    /\ ret' = ParetoPoints(results)
    /\ UNCHANGED <<results, df, args, gen, calls>>

NextPareto == CallParetoPoints

SpecPareto == InitPareto /\ [][NextPareto]_vars

\* ------------------------------------------------------------ C5 and C7
\* A record's fields as spec section 3 defines them: reachable as attributes
\* or as mapping keys alike.
FieldOf(r, attr) == Get(r, attr, None)

ConfigFieldOf(r, attr) == ConfigValue(ResultConfig(r), attr, None)

AllObjects == \A i \in 1..Len(results) : results[i].style = "object"

RECURSIVE SumField(_, _)
SumField(rows, attr) ==
    IF rows = {} THEN 0
    ELSE LET i == CHOOSE x \in rows : TRUE
         IN  FieldOf(results[i], attr) + SumField(rows \ {i}, attr)

\* m is the mean of attr over the non-empty set of records rows.
IsMeanOf(m, rows, attr) ==
    m # NoMean /\ m[1] * Cardinality(rows) = m[2] * SumField(rows, attr)

Ascending(xs) == \A i \in 1..(Len(xs) - 1) : xs[i] < xs[i + 1]

\* The records with a non-null row, column and metric.
GridRecords ==
    {i \in 1..Len(results) :
        /\ ConfigFieldOf(results[i], "altruism_prob") # None
        /\ ConfigFieldOf(results[i], "tau_margin") # None
        /\ FieldOf(results[i], "total_score") # None}

\* The returned grid is the grid of the records in GridRecords.
GridMatchesRecords ==
    GridRecords # {} =>
        /\ ~ret.none
        /\ Ascending(ret.rows) /\ Ascending(ret.cols)
        /\ {ret.rows[r] : r \in 1..Len(ret.rows)} =
              {ConfigFieldOf(results[i], "altruism_prob") : i \in GridRecords}
        /\ {ret.cols[c] : c \in 1..Len(ret.cols)} =
              {ConfigFieldOf(results[i], "tau_margin") : i \in GridRecords}
        /\ Len(ret.grid) = Len(ret.rows)
        /\ \A r \in 1..Len(ret.rows) :
              /\ Len(ret.grid[r]) = Len(ret.cols)
              /\ \A c \in 1..Len(ret.cols) :
                    LET cell == {i \in GridRecords :
                                   /\ ConfigFieldOf(results[i], "altruism_prob") = ret.rows[r]
                                   /\ ConfigFieldOf(results[i], "tau_margin") = ret.cols[c]}
                    IN  IF cell = {} THEN ret.grid[r][c] = NoMean
                        ELSE IsMeanOf(ret.grid[r][c], cell, "total_score")

\* C5: heatmap_matrix returns the sorted distinct row and column values, a
\* rectangular row-major grid, and in every cell the mean of the metric over
\* exactly the records of that (row, col) pair (None for an empty cell), so
\* that every record with a non-null row, column and metric is counted once.
C5_GridCellsAreCellMeans == ret.op = "heatmap_matrix" => GridMatchesRecords

\* The same for a batch of attribute-style results.
GridOfObjects == (ret.op = "heatmap_matrix" /\ AllObjects) => GridMatchesRecords

\* Spec 8's scenario: rows [1,2], columns [10,20], cells 5, 7 / 9, 11.
GridScenarioReached ==
    /\ ret.op = "heatmap_matrix"
    /\ results = GridScenario
    /\ ret.rows = <<1, 2>> /\ ret.cols = <<10, 20>>
    /\ ret.grid = <<(<<(<<5, 1>>), (<<7, 1>>)>>), (<<(<<9, 1>>), (<<11, 1>>)>>)>>

\* The 4-tuple key of a record, and the records with no None in it.
KeyOf(r) == [j \in 1..4 |-> ConfigFieldOf(r, ParetoKeyAttrs[j])]

KeyedRecords == {i \in 1..Len(results) : \A j \in 1..4 : KeyOf(results[i])[j] # None}

\* The records of key k with a non-null attr.
Having(k, attr) ==
    {i \in KeyedRecords : KeyOf(results[i]) = k /\ FieldOf(results[i], attr) # None}

\* The returned points are the points of the records in KeyedRecords.
PointsMatchRecords ==
    LET emitted == {k \in {KeyOf(results[i]) : i \in KeyedRecords} :
                      /\ Having(k, "total_score") # {}
                      /\ Having(k, "player10_individual_mean") # {}}
        pts == ret.value
        key(q) == <<q.altruism, q.tau, q.fresh, q.mono>>
    IN  /\ Len(pts) = Cardinality(emitted)
        /\ \A n \in 1..(Len(pts) - 1) : TupleLess(key(pts[n]), key(pts[n + 1]))
        /\ \A n \in 1..Len(pts) :
              /\ key(pts[n]) \in emitted
              /\ IsMeanOf(pts[n].total, Having(key(pts[n]), "total_score"), "total_score")
              /\ IsMeanOf(pts[n].player10,
                          Having(key(pts[n]), "player10_individual_mean"),
                          "player10_individual_mean")
              /\ IF Having(key(pts[n]), "early_termination") = {}
                 THEN pts[n].early = NoMean
                 ELSE IsMeanOf(pts[n].early, Having(key(pts[n]), "early_termination"),
                               "early_termination")

\* C7: pareto_points returns one point per distinct all-non-null 4-tuple that
\* has a non-null total_score and a non-null player10_individual_mean among
\* its records, each mean skipping only its own nulls ('early' None without an
\* early_termination value), records with a None key field contributing to no
\* point, the points in ascending lexicographic order of the 4-tuple.
C7_ParetoPointsPerKey == ret.op = "pareto_points" => PointsMatchRecords

\* The same for a batch of attribute-style results.
ParetoOfObjects == (ret.op = "pareto_points" /\ AllObjects) => PointsMatchRecords

\* Two keys emitted in key order although listed in the opposite order.
ParetoOrderReached ==
    /\ ret.op = "pareto_points"
    /\ Len(ret.value) = 2
    /\ KeyOf(results[1]) = <<2, 1, 1, 1>>
    /\ ret.value[1].altruism = 1
    /\ ret.value[1].early = NoMean

\* ------------------------------------------- statistics.py: bootstrap_ci
\* The random source.  numpy's bit generator is abstracted to a small
\* full-period congruential generator: what matters is that every draw moves
\* the state and that the stream is a function of the starting state.
RngStates == 0..3

NextRng(s) == (5 * s + 3) % 4

\* np.random.default_rng(seed): the state a seed determines.
SeedState(seed) == seed % 4

\* The state after k draws.
RECURSIVE RngAfter(_, _)
RngAfter(s, k) == IF k = 0 THEN s ELSE RngAfter(NextRng(s), k - 1)

\* The index (1-based) that the k-th draw from state s picks among n values.
DrawIndex(s, k, n) == ((RngAfter(s, k) \div 2) % n) + 1

\* Lines 165-168: the generator the call draws from.  entropy is the state
\* of a fresh unseeded generator (random_state=None).
RngForShared(random_state, g, entropy) ==
    IF random_state.kind = "None" THEN entropy ELSE g

RngFor(random_state, g, entropy) ==
    IF random_state.kind = "generator" THEN g
    ELSE IF random_state.kind = "seed" THEN SeedState(random_state.seed)
    ELSE entropy

\* Line 163, with confidence in percent: 0 < confidence < 1.
ConfidenceValidInclusive(confidence) == 0 <= confidence /\ confidence <= 100

ConfidenceValid(confidence) == 0 < confidence /\ confidence < 100

\* The group keys of df.groupby(list(group_cols)): rows with a NaN in a key
\* column belong to no group (dropna=True); groups come in sorted key order.
RowKey(row, group_cols) == [j \in 1..Len(group_cols) |-> row[group_cols[j]]]

GroupKeys(frame, group_cols) ==
    SortedTuples({k \in {RowKey(frame[i], group_cols) : i \in 1..Len(frame)} :
                    \A j \in 1..Len(group_cols) : k[j] # None})

\* group[metric].dropna().to_numpy()
GroupValues(frame, group_cols, metric, key) ==
    DropNa(Column(SelectSeq(frame, LAMBDA r : RowKey(r, group_cols) = key), metric))

\* Line 175: the sums of the resamples (their means times n), drawn row by
\* row from state s.
ResampleSums(values, iterations, s) ==
    LET n == Len(values)
    IN  [i \in 1..iterations |->
           SumSeq([j \in 1..n |-> values[DrawIndex(s, (i - 1) * n + j, n)]])]

\* A list of numbers in ascending order.
RECURSIVE Insert(_, _)
Insert(x, xs) ==
    IF xs = <<>> THEN <<x>>
    ELSE IF x <= Head(xs) THEN <<x>> \o xs
    ELSE <<Head(xs)>> \o Insert(x, Tail(xs))

RECURSIVE SortAsc(_)
SortAsc(xs) == IF xs = <<>> THEN <<>> ELSE Insert(Head(xs), SortAsc(Tail(xs)))

\* np.quantile(boot, q) with q = num/200 (linear interpolation) of the sorted
\* sums, times 200.
Quantile200(sorted, num) ==
    LET h == (Len(sorted) - 1) * num
        lo == h \div 200
        part == h % 200
    IN  IF part = 0 THEN 200 * sorted[lo + 1]
        ELSE 200 * sorted[lo + 1] + part * (sorted[lo + 2] - sorted[lo + 1])

\* Lines 172-188 for one group: its row, drawing from state s.
BootRow(values, key, iterations, confidence, s) ==
    LET n == Len(values)
        sorted == SortAsc(ResampleSums(values, iterations, s))
    IN  [key |-> key, mean |-> Mean(values),
         ci_low |-> Frac(Quantile200(sorted, 100 - confidence), 200 * n),
         ci_high |-> Frac(Quantile200(sorted, 100 + confidence), 200 * n),
         n |-> n]

\* The loop of lines 171-188 over keys[k..]: the rows and the final state.
RECURSIVE BootRows(_, _, _, _, _, _, _)
BootRows(frame, group_cols, metric, iterations, confidence, keys, s) ==
    IF keys = <<>> THEN [rows |-> <<>>, state |-> s, draws |-> 0]
    ELSE LET values == GroupValues(frame, group_cols, metric, Head(keys))
             used == iterations * Len(values)
             rest == BootRows(frame, group_cols, metric, iterations, confidence,
                              Tail(keys), RngAfter(s, used))
         IN  IF Len(values) = 0 THEN rest
             ELSE [rows |-> <<BootRow(values, Head(keys), iterations, confidence, s)>>
                              \o rest.rows,
                   state |-> rest.state, draws |-> used + rest.draws]

\* bootstrap_ci from state s: the confidence check, the loop, and line 189,
\* where selecting the columns of pd.DataFrame([]) raises KeyError.
BootstrapCi(frame, group_cols, metric, iterations, confidence, s) ==
    IF ~ConfidenceValid(confidence)
    THEN [raised |-> "ValueError", value |-> <<>>, state |-> s, draws |-> 0]
    ELSE LET out == BootRows(frame, group_cols, metric, iterations, confidence,
                             GroupKeys(frame, group_cols), s)
         IN  [raised |-> IF out.rows = <<>> THEN "KeyError" ELSE "none",
              value |-> out.rows, state |-> out.state, draws |-> out.draws]

\* ------------------------------------------------------ bootstrap spec
BootRowsSet == [altruism_prob : {1, 2}, total_score : {None, 1, 4}]

BootTables == UNION {[1..n -> BootRowsSet] : n \in 0..MaxBootRows}

\* --ci-group, --ci-metric, --ci-iterations, --ci-confidence (in percent).
BootArgs ==
    [ci_group : {<<"altruism_prob">>},
     ci_metric : {"total_score"},
     ci_iterations : {1, MaxIterations},
     ci_confidence : {-50, 0, 50, 100, 150}]

\* random_state: an integer seed, None, or the caller's Generator.
RandomStates ==
    {[kind |-> "seed", seed |-> n] : n \in {0, 1}}
    \cup {[kind |-> "None", seed |-> 0], [kind |-> "generator", seed |-> 0]}

InitBoot ==
    /\ results = <<>>
    /\ df \in BootTables
    /\ args \in BootArgs
    /\ gen = 0
    /\ calls = <<>>
    /\ ret = NoCall

\* bootstrap_ci(df, args.ci_group, args.ci_metric, iterations=...,
\*              confidence=..., random_state=random_state).  calls keeps what
\* the first call with each integer seed returned; repeat marks a later one.
CallBootstrapCi ==
    \E random_state \in RandomStates :
    \E entropy \in IF random_state.kind = "None" THEN RngStates ELSE {0} :
        LET out == BootstrapCi(df, args.ci_group, args.ci_metric, args.ci_iterations,
                               args.ci_confidence, RngFor(random_state, gen, entropy))
            seeded == random_state.kind = "seed"
            call == [op |-> "bootstrap_ci", random_state |-> random_state,
                     raised |-> out.raised, value |-> out.value, draws |-> out.draws,
                     repeat |-> seeded /\ random_state.seed \in DOMAIN calls]
        IN  /\ ret' = call
            /\ gen' = IF random_state.kind = "generator" THEN out.state ELSE gen
            /\ calls' = IF seeded /\ random_state.seed \notin DOMAIN calls
                         THEN calls @@ (random_state.seed :> call)
                         ELSE calls
            /\ UNCHANGED <<results, df, args>>

NextBoot == CallBootstrapCi

SpecBoot == InitBoot /\ [][NextBoot]_vars

\* ------------------------------------------------------- C8, C9, C10
\* C8: a bootstrap_ci call with an integer seed returns the same rows in the
\* same order (or fails alike) as the first call on the same table and
\* arguments with that seed, whatever calls were made in between.
C8_SeededCallsAgree ==
    (ret.op = "bootstrap_ci" /\ ret.random_state.kind = "seed") =>
        /\ ret.random_state.seed \in DOMAIN calls
        /\ ret.raised = calls[ret.random_state.seed].raised
        /\ ret.value = calls[ret.random_state.seed].value

\* A repeated call with seed 0 where resampling matters: a group of two
\* different values and an interval of positive width.
C8_Witness ==
    /\ ret.op = "bootstrap_ci"
    /\ ret.random_state = [kind |-> "seed", seed |-> 0]
    /\ ret.repeat
    /\ ret.raised = "none"
    /\ ret.value[1].n = 2
    /\ ret.value[1].ci_low # ret.value[1].ci_high

\* The groups of the table with a non-null metric value, in key order.
GroupsWithValues ==
    SelectSeq(GroupKeys(df, args.ci_group),
              LAMBDA k : \E i \in 1..Len(df) :
                  RowKey(df[i], args.ci_group) = k /\ df[i][args.ci_metric] # None)

\* C9: a bootstrap_ci call with a valid confidence completes with one row per
\* group that has a non-null metric value and none for the other groups, also
\* when no group has one (an empty table).
C9_EmptyGroupsAreOmitted ==
    (ret.op = "bootstrap_ci" /\ ConfidenceValid(args.ci_confidence)) =>
        /\ ret.raised = "none"
        /\ [i \in 1..Len(ret.value) |-> ret.value[i].key] = GroupsWithValues

\* C10: bootstrap_ci raises ValueError exactly when confidence is not
\* strictly between 0 and 1, before any resampling: no row is produced and
\* nothing is drawn from the random source.
C10_ConfidenceValidated ==
    ret.op = "bootstrap_ci" =>
        /\ ret.raised = "ValueError" <=>
              (args.ci_confidence <= 0 \/ args.ci_confidence >= 100)
        /\ ret.raised = "ValueError" => (ret.value = <<>> /\ ret.draws = 0)

\* Confidence exactly 1 rejected on a table with data, with the caller's
\* generator as the random source.
C10_Witness ==
    /\ ret.op = "bootstrap_ci"
    /\ args.ci_confidence = 100
    /\ ret.raised = "ValueError"
    /\ ret.random_state.kind = "generator"
    /\ Len(GroupsWithValues) > 0

\* ------------------------------- analyze.py: "Top configurations" table
\* The grouping columns of lines 304-308 (all are columns of the frame that
\* results_dataframe builds).
TopGroupCols == <<"altruism_prob", "tau_margin", "epsilon_fresh", "epsilon_mono">>

\* Series.var(ddof=1), the square of the 'std' aggregate: NaN below two values.
SampleVariance(xs) ==
    IF Len(xs) < 2 THEN NoMean
    ELSE Frac(Len(xs) * SumSquares(xs) - SumSeq(xs) * SumSeq(xs),
              Len(xs) * (Len(xs) - 1))

\* Lines 311-316: one row per group key: mean and std of the non-null
\* metric values, and size(), the number of rows of the group.
GroupedRow(frame, key) ==
    LET values == GroupValues(frame, TopGroupCols, "total_score", key)
    IN  [key |-> key,
         total_score_mean |-> IF Len(values) > 0 THEN Mean(values) ELSE NoMean,
         total_score_var |-> SampleVariance(values),
         count |-> Len(SelectSeq(frame, LAMBDA r : RowKey(r, TopGroupCols) = key))]

Grouped(frame) ==
    LET keys == GroupKeys(frame, TopGroupCols)
    IN  {GroupedRow(frame, keys[i]) : i \in 1..Len(keys)}

\* sort_values(sort_col, ascending=False): p comes strictly before q; NaN last.
SortsBefore(p, q) ==
    /\ p.total_score_mean # NoMean
    /\ \/ q.total_score_mean = NoMean
       \/ FracLess(q.total_score_mean, p.total_score_mean)

\* The rows in descending order of the mean, equal means in key order.
RECURSIVE Ranked(_)
Ranked(rows) ==
    IF rows = {} THEN <<>>
    ELSE LET top == CHOOSE p \in rows : \A q \in rows \ {p} :
                       \/ SortsBefore(p, q)
                       \/ (~SortsBefore(q, p) /\ TupleLess(p.key, q.key))
         IN  <<top>> \o Ranked(rows \ {top})

\* Lines 317-320: the possible tables after sort_values and head(10).  The
\* sort is unstable, so any of the rows of equal mean may make the cut.
TopTables(frame) ==
    LET rows == Grouped(frame)
        n == IF Cardinality(rows) < TopRows THEN Cardinality(rows) ELSE TopRows
    IN  {Ranked(cut) : cut \in {c \in SUBSET rows :
            /\ Cardinality(c) = n
            /\ \A p \in c : \A q \in rows \ c : ~SortsBefore(q, p)}}

\* ------------------------------------------------ sweep tables (main)
\* The frame of a parameter sweep: every combination of na altruism levels,
\* nt tau levels and ns seeds.  Run `hole` (if any) lacks its altruism_prob,
\* run `blank` (if any) lacks its total_score; the scores are all equal (flat)
\* or vary with the configuration and the seed.
SweepRow(a, t, sd, flat) ==
    [altruism_prob |-> a, tau_margin |-> t, epsilon_fresh |-> 1,
     epsilon_mono |-> 1, seed |-> sd,
     total_score |-> IF flat THEN 5 ELSE a * t + sd]

Sweep(na, nt, ns, hole, blank, flat) ==
    [i \in 1..(na * nt * ns) |->
        LET a == ((i - 1) \div (nt * ns)) + 1
            t == (((i - 1) \div ns) % nt) + 1
            sd == ((i - 1) % ns) + 1
            row == SweepRow(a, t, sd, flat)
        IN  [row EXCEPT !.altruism_prob = IF i = hole THEN None ELSE @,
                        !.total_score = IF i = blank THEN None ELSE @]]

SweepTables ==
    {Sweep(na, nt, ns, hole, blank, flat) :
        na \in 1..MaxAltruismLevels, nt \in 1..MaxTauLevels, ns \in 1..MaxSeeds,
        hole \in 0..2, blank \in 0..3, flat \in BOOLEAN}

InitTop ==
    /\ results = <<>>
    /\ df \in SweepTables
    /\ args = NoArgs
    /\ gen = 0
    /\ calls = <<>>
    /\ ret = NoCall

\* main with --analysis, as written: line 284 reads args.dtype_filter, an
\* option the parser of lines 176-235 never defines, so the run ends in
\* AttributeError before any summary table is printed.
MainAnalysis ==
    /\ Len(df) > 0
    /\ ret' = [op |-> "main", raised |-> "AttributeError", value |-> <<>>]
    /\ UNCHANGED <<results, df, args, gen, calls>>

\* Lines 304-320 on their own: the grouped table handed to _print_table.
ReportTopConfigurations ==
    /\ Len(df) > 0
    /\ \E table \in TopTables(df) :
          ret' = [op |-> "top_configurations", raised |-> "none", value |-> table]
    /\ UNCHANGED <<results, df, args, gen, calls>>

NextTop ==
    \/ MainAnalysis
    \/ ReportTopConfigurations

SpecTop == InitTop /\ [][NextTop]_vars

\* ------------------------------------------------------------------- C3
RECURSIVE SumCounts(_)
SumCounts(table) ==
    IF table = <<>> THEN 0 ELSE Head(table).count + SumCounts(Tail(table))

\* The records with a non-null value in every grouping field.
FullyKeyed ==
    {i \in 1..Len(df) : \A j \in 1..Len(TopGroupCols) : df[i][TopGroupCols[j]] # None}

CountsCoverWhenNotCut ==
    (ret.op = "top_configurations" /\ Cardinality(Grouped(df)) <= TopRows) =>
        SumCounts(ret.value) = Cardinality(FullyKeyed)

\* A table of fewer groups than records, one record without a key.
CountsCoverReached ==
    /\ ret.op = "top_configurations"
    /\ Len(ret.value) = 6
    /\ SumCounts(ret.value) = 11
    /\ Len(df) = 12

\* ------------------------------------------------------------------ C11
RECURSIVE SumSquaresAt(_, _)
SumSquaresAt(rows, metric) ==
    IF rows = {} THEN 0
    ELSE LET i == CHOOSE x \in rows : TRUE
         IN  df[i][metric] * df[i][metric] + SumSquaresAt(rows \ {i}, metric)

\* n times the sum of squared deviations from the mean of the metric over
\* the given rows: zero exactly when the rows have no variance.
Spread(rows, metric) ==
    Cardinality(rows) * SumSquaresAt(rows, metric)
        - SumAt(rows, metric) * SumAt(rows, metric)

\* C11: in every row pairwise_deltas emits, cohens_d is not-a-number when
\* neither group has any variance (pooled standard deviation zero), and is
\* delta_mean over the pooled standard deviation
\* sqrt((SS_a + SS_b) / (n_a + n_b - 2)) when that is positive; the call
\* does not raise.
C11_CohensD ==
    ret.op = "pairwise_deltas" =>
        /\ ret.raised = "none"
        /\ \A k \in 1..Len(ret.value) :
              LET r == ret.value[k]
                  A == ValidAt("altruism_prob", "total_score", r.a)
                  B == ValidAt("altruism_prob", "total_score", r.b)
                  na == Cardinality(A)
                  nb == Cardinality(B)
                  pooled == Spread(A, "total_score") * nb + Spread(B, "total_score") * na
              IN  /\ pooled = 0 => r.cohens_d.nan
                  /\ (pooled > 0 /\ na + nb > 2) =>
                        /\ ~r.cohens_d.nan
                        /\ r.cohens_d.delta = r.delta_mean
                        /\ r.cohens_d.pooled_var[1] * (na * nb * (na + nb - 2))
                              = r.cohens_d.pooled_var[2] * pooled

\* The same where both groups have at least two observations, so that both
\* sample variances exist.
CohensDWithVariances ==
    ret.op = "pairwise_deltas" =>
        \A k \in 1..Len(ret.value) :
            LET r == ret.value[k]
                A == ValidAt("altruism_prob", "total_score", r.a)
                B == ValidAt("altruism_prob", "total_score", r.b)
                na == Cardinality(A)
                nb == Cardinality(B)
                pooled == Spread(A, "total_score") * nb + Spread(B, "total_score") * na
            IN  (na >= 2 /\ nb >= 2) =>
                   /\ pooled = 0 => r.cohens_d.nan
                   /\ pooled > 0 =>
                        /\ ~r.cohens_d.nan
                        /\ r.cohens_d.delta = r.delta_mean
                        /\ r.cohens_d.pooled_var[1] * (na * nb * (na + nb - 2))
                              = r.cohens_d.pooled_var[2] * pooled

\* Spec 8's scenario: delta 30 over a pooled variance of 400 / 3.
CohensDScenarioReached ==
    /\ ret.op = "pairwise_deltas"
    /\ df = ScenarioTable
    /\ ret.value[1].cohens_d = [nan |-> FALSE, delta |-> <<30, 1>>, pooled_var |-> <<400, 3>>]

\* --------------------------------- calls that name columns of the table
MaxFieldRows == 2

\* df.columns of a table with at least one row.
Columns(frame) == UNION {DOMAIN frame[i] : i \in 1..Len(frame)}

KeyErrorOf(op) == [op |-> op, raised |-> "KeyError", value |-> <<>>]

\* pairwise_deltas with any column names: df[group_col] of line 200 raises
\* KeyError for an absent column, and so does [metric] of line 203, which
\* runs once there is a level.
PairwiseDeltasNamed(frame, group_col, metric) ==
    IF group_col \notin Columns(frame) THEN KeyErrorOf("pairwise_deltas")
    ELSE IF Unique(frame, group_col) # {} /\ metric \notin Columns(frame)
         THEN KeyErrorOf("pairwise_deltas")
         ELSE IF Unique(frame, group_col) = {}
              THEN [op |-> "pairwise_deltas", raised |-> "none", value |-> <<>>]
              ELSE PairwiseDeltas(frame, group_col, metric)

\* seed_stability_curves with any column names: sort_values(order_col) of
\* line 386 and groupby(group_col) of line 387 raise KeyError for an absent
\* column, and so does group[metric] of line 388 once there is a group.
SeedStabilityCurvesNamed(frame, group_col, metric, order_col) ==
    IF order_col \notin Columns(frame) \/ group_col \notin Columns(frame)
    THEN {KeyErrorOf("seed_stability_curves")}
    ELSE IF Unique(frame, group_col) # {} /\ metric \notin Columns(frame)
         THEN {KeyErrorOf("seed_stability_curves")}
         ELSE IF Unique(frame, group_col) = {}
              THEN {[op |-> "seed_stability_curves", raised |-> "none",
                     value |-> <<>>]}
              ELSE {SeedStabilityCurves(ordered, group_col, metric) :
                       ordered \in SortValues(frame, order_col)}

\* bootstrap_ci with any column names: after the confidence check,
\* groupby(list(group_cols)) of line 171 raises KeyError for an absent
\* column, and so does group[metric] of line 172 once there is a group.
BootstrapCiNamed(frame, group_cols, metric, iterations, confidence, s) ==
    IF ~ConfidenceValid(confidence)
    THEN [raised |-> "ValueError", value |-> <<>>, state |-> s, draws |-> 0]
    ELSE IF \E j \in 1..Len(group_cols) : group_cols[j] \notin Columns(frame)
         THEN [raised |-> "KeyError", value |-> <<>>, state |-> s, draws |-> 0]
         ELSE IF GroupKeys(frame, group_cols) # <<>> /\ metric \notin Columns(frame)
              THEN [raised |-> "KeyError", value |-> <<>>, state |-> s, draws |-> 0]
              ELSE IF GroupKeys(frame, group_cols) = <<>>
                   THEN [raised |-> "KeyError", value |-> <<>>, state |-> s, draws |-> 0]
                   ELSE BootstrapCi(frame, group_cols, metric, iterations, confidence, s)

FieldRowsSet == [altruism_prob : {None, 1, 2}, total_score : {None, 1, 3}, seed : {1, 2}]

\* main hands over a table of at least one run (analyze.py lines 244-245).
FieldTables == UNION {[1..n -> FieldRowsSet] : n \in 1..MaxFieldRows}

\* The columns a caller names: one of the table, or one the table lacks.
FieldArgs ==
    [group_col : {"altruism_prob", "cohort"}, metric : {"total_score", "bonus"},
     order_col : {"seed", "run_index"}, confidence : {50, 100}]

InitFields ==
    /\ results = <<>>
    /\ df \in FieldTables
    /\ args \in FieldArgs
    /\ gen = 0
    /\ calls = <<>>
    /\ ret = NoCall

CallPairwiseDeltasNamed ==
    /\ ret' = PairwiseDeltasNamed(df, args.group_col, args.metric)
    /\ UNCHANGED <<results, df, args, gen, calls>>

CallSeedStabilityCurvesNamed ==
    /\ ret' \in SeedStabilityCurvesNamed(df, args.group_col, args.metric, args.order_col)
    /\ UNCHANGED <<results, df, args, gen, calls>>

\* bootstrap_ci(df, [group_col], metric, iterations=1, confidence=...,
\*              random_state=0)
CallBootstrapCiNamed ==
    LET out == BootstrapCiNamed(df, <<args.group_col>>, args.metric, 1,
                                args.confidence, SeedState(0))
    IN  /\ ret' = [op |-> "bootstrap_ci", raised |-> out.raised, value |-> out.value]
        /\ UNCHANGED <<results, df, args, gen, calls>>

NextFields ==
    \/ CallPairwiseDeltasNamed
    \/ CallSeedStabilityCurvesNamed
    \/ CallBootstrapCiNamed

SpecFields == InitFields /\ [][NextFields]_vars

\* ------------------------------------------------------------------ C12
\* A grouping or metric column named in the call that the table lacks.
FieldAbsent == args.group_col \notin Columns(df) \/ args.metric \notin Columns(df)

\* C12: a call of bootstrap_ci (with a valid confidence), pairwise_deltas or
\* seed_stability_curves that names a grouping or metric column absent from
\* the table does not fail: it completes with an empty result.
C12_AbsentFieldsDegrade ==
    (/\ ret.op \in {"bootstrap_ci", "pairwise_deltas", "seed_stability_curves"}
     /\ FieldAbsent
     /\ args.order_col \in Columns(df)
     /\ ConfidenceValid(args.confidence)) =>
        (ret.raised = "none" /\ ret.value = <<>>)

\* With every named column present, pairwise_deltas and
\* seed_stability_curves complete.
PresentFieldsComplete ==
    (/\ ret.op \in {"pairwise_deltas", "seed_stability_curves"}
     /\ ~FieldAbsent
     /\ args.order_col \in Columns(df)) => ret.raised = "none"

\* An absent metric goes unnoticed while no row has a grouping value.
AbsentMetricUnreadReached ==
    /\ ret.op = "pairwise_deltas"
    /\ args.metric \notin Columns(df)
    /\ ret.raised = "none"

\* ------------------------------------- analyze.py: loading a results file
MaxLoad == 2

\* Parsed JSON values: arrays of result records, strings (by length),
\* numbers, null, and objects (by their entries).
JsonArray(items) == [type |-> "array", items |-> items]

JsonString(n) == [type |-> "string", length |-> n]

JsonNumber == [type |-> "number"]

JsonNull == [type |-> "null"]

JsonObject(entries) == [type |-> "object", entries |-> entries]

\* The result records of a file: mappings, as json.load builds them.
LoadRecords ==
    {[style |-> "mapping", config |-> c, fields |-> [total_score |-> m],
      score_breakdown |-> NoBreakdown] :
        c \in {NoConfig, [kind |-> "mapping",
                          fields |-> [altruism_prob |-> 1, tau_margin |-> 1]]},
        m \in {None, 5}}

RecordArrays == {JsonArray(items) : items \in Batches(LoadRecords, MaxLoad)}

\* Values found under 'results' or 'metadata' of a top-level object.
InnerValues ==
    RecordArrays
    \cup {JsonString(n) : n \in 0..MaxLoad}
    \cup {JsonNumber, JsonNull}
    \cup {JsonObject(e) : e \in PartialFns({"run_name", "notes"}, {JsonNull})}

\* The documents a results file may hold.
Payloads ==
    RecordArrays
    \cup {JsonString(1), JsonNumber, JsonNull}
    \cup {JsonObject(e) : e \in PartialFns({"results"}, InnerValues)}
    \cup {JsonObject(e @@ ("metadata" :> JsonObject(<<>>))) :
             e \in PartialFns({"results"}, InnerValues)}

\* _load_results, lines 46-53: what it returns, or the ValueError of line 53.
LoadResults(payload) ==
    IF payload.type = "object" /\ "results" \in DOMAIN payload.entries
    THEN [raised |-> "none", value |-> payload.entries["results"]]
    ELSE IF payload.type = "array"
         THEN [raised |-> "none", value |-> payload]
         ELSE [raised |-> "ValueError", value |-> JsonNull]

\* A str, as results_to_records sees it: an object with none of the fields.
StrItem ==
    [style |-> "object", config |-> [kind |-> "absent", fields |-> <<>>],
     fields |-> <<>>, score_breakdown |-> NoBreakdown]

\* `for result in results` (statistics.py line 64): an array yields its
\* items, a string its characters, a mapping its keys; a number or None
\* is not iterable.
Iterate(value) ==
    CASE value.type = "array" -> [raised |-> "none", items |-> value.items]
      [] value.type = "string" ->
            [raised |-> "none", items |-> [i \in 1..value.length |-> StrItem]]
      [] value.type = "object" ->
            [raised |-> "none",
             items |-> [i \in 1..Cardinality(DOMAIN value.entries) |-> StrItem]]
      [] OTHER -> [raised |-> "TypeError", items |-> <<>>]

\* main, lines 237-246, for a file that exists: load, normalise, and stop
\* with SystemExit when there are no records.
MainLoad(payload) ==
    LET loaded == LoadResults(payload)
        iter == Iterate(loaded.value)
        recs == ResultsToRecords(iter.items)
    IN  IF loaded.raised # "none"
        THEN [op |-> "main", raised |-> loaded.raised, value |-> <<>>]
        ELSE IF iter.raised # "none"
             THEN [op |-> "main", raised |-> iter.raised, value |-> <<>>]
             ELSE IF recs.raised # "none"
                  THEN [op |-> "main", raised |-> recs.raised, value |-> <<>>]
                  ELSE IF recs.value = <<>>
                       THEN [op |-> "main", raised |-> "SystemExit", value |-> <<>>]
                       ELSE [op |-> "main", raised |-> "none", value |-> recs.value]

InitLoad ==
    /\ results = <<>>
    /\ df = <<>>
    /\ args \in [results_file : Payloads]
    /\ gen = 0
    /\ calls = <<>>
    /\ ret = NoCall

\* python -m players.player_10.tools.analyze results_file: df holds the
\* records that the aggregations go on to use.
Main ==
    /\ ret = NoCall
    /\ ret' = MainLoad(args.results_file)
    /\ df' = ret'.value
    /\ UNCHANGED <<results, args, gen, calls>>

NextLoad == Main

SpecLoad == InitLoad /\ [][NextLoad]_vars

\* ------------------------------------------------------------------ C13
\* The results array of one of the two accepted shapes, if the document
\* has one of them.
IsRecordArray(value) == value.type = "array"

AcceptedShape(payload) ==
    \/ IsRecordArray(payload)
    \/ /\ payload.type = "object"
       /\ "results" \in DOMAIN payload.entries
       /\ IsRecordArray(payload.entries["results"])

ResultsArrayOf(payload) ==
    IF IsRecordArray(payload) THEN payload.items ELSE payload.entries["results"].items

\* C13: a run completes the loading step exactly for a bare array of result
\* records or an object whose 'results' entry is an array, the array being
\* non-empty; every other document, and an empty results array, ends the
\* run with an error before any aggregation.
C13_LoaderShapes ==
    ret.op = "main" =>
        (ret.raised = "none" <=>
            (/\ AcceptedShape(args.results_file)
             /\ ResultsArrayOf(args.results_file) # <<>>))

\* The two accepted shapes load their records, an empty array stops the run
\* with SystemExit, and a document that is neither an array nor an object
\* with 'results' stops it with ValueError.
LoaderAcceptedShapes ==
    ret.op = "main" =>
        /\ AcceptedShape(args.results_file) =>
              IF ResultsArrayOf(args.results_file) = <<>>
              THEN ret.raised = "SystemExit"
              ELSE ret.raised = "none" /\ Len(ret.value) = Len(ResultsArrayOf(args.results_file))
        /\ (/\ ~IsRecordArray(args.results_file)
            /\ (args.results_file.type = "object" =>
                   "results" \notin DOMAIN args.results_file.entries)) =>
              ret.raised = "ValueError"

\* A wrapped array of two records, with metadata, loaded.
LoaderWrappedReached ==
    /\ ret.op = "main"
    /\ args.results_file.type = "object"
    /\ "metadata" \in DOMAIN args.results_file.entries
    /\ ret.raised = "none"
    /\ Len(ret.value) = 2
    /\ AcceptedShape(args.results_file)

\* ------------------------------------- aggregation calls over one table
MaxFrameRows == 2

\* Tables whose runs have distinct seeds, listed in descending seed order.
FrameTables ==
    {[i \in 1..Len(t) |-> t[i] @@ [seed |-> Len(t) + 1 - i]] :
        t \in UNION {[1..n -> BootRowsSet] : n \in 0..MaxFrameRows}}

FrameArgs ==
    [ci_group : {<<"altruism_prob">>}, ci_metric : {"total_score"},
     ci_iterations : {1}, ci_confidence : {50}]

\* random_state as passed by the caller: a seed or their Generator.
FrameRandomStates ==
    {[kind |-> "seed", seed |-> 0], [kind |-> "generator", seed |-> 0]}

\* df after ordered = df.sort_values(order_col) (line 386): sort_values
\* returns a new table and leaves df as it was.
FrameAfterSortInPlace(frame, ordered) == ordered

FrameAfterSort(frame, ordered) == frame

InitFrame ==
    /\ results = <<>>
    /\ df \in FrameTables
    /\ args \in FrameArgs
    /\ gen = 0
    /\ calls = <<>>
    /\ ret = NoCall

\* What a call returned, under the key of its arguments; calls keeps the
\* first return per key, repeat marks a later call with the same arguments.
Returned(key, out, rng_before) ==
    [op |-> key, raised |-> out.raised, value |-> out.value,
     rng_before |-> rng_before, repeat |-> key \in DOMAIN calls]

Remember(call) ==
    IF call.op \in DOMAIN calls THEN calls ELSE calls @@ (call.op :> call)

FramePairwiseDeltas ==
    LET call == Returned("pairwise_deltas",
                         PairwiseDeltas(df, "altruism_prob", "total_score"), 0)
    IN  /\ ret' = call
        /\ calls' = Remember(call)
        /\ UNCHANGED <<results, df, args, gen>>

FrameSeedStabilityCurves ==
    \E ordered \in SortValues(df, "seed") :
        LET call == Returned("seed_stability_curves",
                             SeedStabilityCurves(ordered, "altruism_prob", "total_score"), 0)
        IN  /\ ret' = call
            /\ calls' = Remember(call)
            /\ df' = FrameAfterSort(df, ordered)
            /\ UNCHANGED <<results, args, gen>>

\* bootstrap_ci(df, ..., random_state=random_state); gen is the caller's
\* Generator, which rng.choice advances when it is the one passed in.
FrameBootstrapCi ==
    \E random_state \in FrameRandomStates :
        LET s == RngFor(random_state, gen, 0)
            out == BootstrapCi(df, args.ci_group, args.ci_metric, args.ci_iterations,
                               args.ci_confidence, s)
            call == Returned("bootstrap_ci " \o random_state.kind, out, s)
        IN  /\ ret' = call
            /\ calls' = Remember(call)
            /\ gen' = IF random_state.kind = "generator" THEN out.state ELSE gen
            /\ UNCHANGED <<results, df, args>>

NextFrame ==
    \/ FramePairwiseDeltas
    \/ FrameSeedStabilityCurves
    \/ FrameBootstrapCi

SpecFrame == InitFrame /\ [][NextFrame]_vars

\* ------------------------------------------------------------------ C14
\* The call just made returned what the first call with its arguments did.
AgreesWithFirst == ret'.raised = calls[ret'.op].raised /\ ret'.value = calls[ret'.op].value

\* C14 as stated: no call changes the table, the records, the arguments or
\* the caller's random source, and a call with arguments used before (a
\* seed, or the caller's generator, for bootstrap_ci) returns what it
\* returned then.
C14_CallsLeaveNoTrace ==
    [][/\ df' = df /\ results' = results /\ args' = args /\ gen' = gen
       /\ ret'.op \in DOMAIN calls => AgreesWithFirst]_vars

\* C14 amended: no call changes the table, the records or the arguments;
\* only a bootstrap_ci call given the caller's generator changes that
\* generator, advancing it by the draws it takes; a call with arguments used
\* before returns what it returned then, a generator-backed call whenever
\* the generator is in the state it had then.
C14_OnlyTheGeneratorAdvances ==
    [][/\ df' = df /\ results' = results /\ args' = args
       /\ gen' # gen => ret'.op = "bootstrap_ci generator"
       /\ ret'.op = "bootstrap_ci generator" =>
             gen' = RngAfter(gen, IF ret'.raised = "ValueError" THEN 0
                                  ELSE Len(DropNa(Column(df, "total_score"))))
       /\ (/\ ret'.op \in DOMAIN calls
           /\ ret'.rng_before = calls[ret'.op].rng_before) => AgreesWithFirst]_vars

\* A second generator-backed call that found the generator advanced and
\* returned another interval, after the other aggregations had run.
C14_Witness ==
    /\ ret.op = "bootstrap_ci generator"
    /\ ret.repeat
    /\ ret.raised = "none"
    /\ ret.rng_before # calls[ret.op].rng_before
    /\ ret.value # calls[ret.op].value
    /\ {"pairwise_deltas", "seed_stability_curves", "bootstrap_ci seed"} \subseteq DOMAIN calls

\* ------------------------------- statistics.py: multi_heatmap_pivots
MaxFacetRuns == 2

\* group.pivot_table(index=row_col, columns=col_col, values=metric,
\* aggfunc='mean') (line 419): the rows with a row, a column and a metric
\* value are grouped by (row, col); index and columns are the sorted values
\* that occur, a cell without rows is NaN.
PivotTable(group, row_col, col_col, metric) ==
    LET valid == SelectSeq(group, LAMBDA r :
                    r[row_col] # None /\ r[col_col] # None /\ r[metric] # None)
        index == SortedSeq({valid[i][row_col] : i \in 1..Len(valid)})
        columns == SortedSeq({valid[i][col_col] : i \in 1..Len(valid)})
        Cell(rv, cv) == Column(SelectSeq(valid, LAMBDA r :
                                   r[row_col] = rv /\ r[col_col] = cv), metric)
    IN  [rows |-> index, cols |-> columns,
         grid |-> [r \in 1..Len(index) |->
                     [c \in 1..Len(columns) |->
                         IF Len(Cell(index[r], columns[c])) > 0
                         THEN Mean(Cell(index[r], columns[c]))
                         ELSE NoMean]]]

\* multi_heatmap_pivots(df, fixed=..., row_col=..., col_col=..., metric=...):
\* one pivot per level of df.groupby(fixed), which skips a null level.
MultiHeatmapPivots(frame, fixed, row_col, col_col, metric) ==
    [op |-> "multi_heatmap_pivots", raised |-> "none",
     value |-> [level \in Unique(frame, fixed) |->
                  PivotTable(WhereEq(frame, fixed, level), row_col, col_col, metric)]]

\* results_dataframe(results): the table of the normalised records.
ResultsDataframe(rs) == ResultsToRecords(rs).value

FacetConfigs(style) ==
    {NoConfig} \cup
    {[kind |-> style, fields |-> [altruism_prob |-> a, tau_margin |-> t,
                                  epsilon_fresh |-> f]] :
        a \in {None, 1, 2}, t \in {None, 1, 2}, f \in {1, 2}}

FacetResults(style) ==
    {[style |-> style, config |-> c, fields |-> [total_score |-> m],
      score_breakdown |-> NoBreakdown] :
        c \in FacetConfigs(style), m \in {None, 5, 7}}

\* A batch of results in one access style and the table built from it.
InitFacet ==
    /\ results \in Batches(FacetResults("object"), MaxFacetRuns)
                     \cup Batches(FacetResults("mapping"), MaxFacetRuns)
    /\ df = ResultsDataframe(results)
    /\ args = NoArgs
    /\ gen = 0
    /\ calls = <<>>
    /\ ret = NoCall

\* multi_heatmap_pivots(df, fixed='epsilon_fresh', row_col='altruism_prob',
\*                      col_col='tau_margin', metric='total_score')
CallMultiHeatmapPivots ==
    /\ ret' = MultiHeatmapPivots(df, "epsilon_fresh", "altruism_prob", "tau_margin",
                                 "total_score")
    /\ UNCHANGED <<results, df, args, gen, calls>>

NextFacet == CallMultiHeatmapPivots

SpecFacet == InitFacet /\ [][NextFacet]_vars

\* ------------------------------------------------------------------ C15
\* The facet levels that have records.
FacetLevels ==
    {ConfigFieldOf(results[i], "epsilon_fresh") : i \in 1..Len(results)} \ {None}

\* The single grid of the records of one facet level.
SingleGrid(level) ==
    HeatmapMatrix(SelectSeq(results,
                            LAMBDA r : ConfigFieldOf(r, "epsilon_fresh") = level),
                  "altruism_prob", "tau_margin", "total_score")

\* The mapping has an entry exactly for the facet levels with records, and
\* each entry has the rows, columns and cells of that level's single grid
\* (no rows and no columns where the single grid has no cell at all).
FacetsMatchSingleGrids ==
    /\ DOMAIN ret.value = FacetLevels
    /\ \A level \in FacetLevels :
          LET single == SingleGrid(level)
              facet == ret.value[level]
          IN  IF single.none
              THEN facet.rows = <<>> /\ facet.cols = <<>>
              ELSE /\ facet.rows = single.rows
                   /\ facet.cols = single.cols
                   /\ facet.grid = single.grid

\* C15: for every facet level that has records, the grid multi_heatmap_pivots
\* returns for the level has the row values, column values and cell values
\* of heatmap_matrix applied to the records of that level; levels without
\* records are absent.
C15_FacetsAreSingleGrids == ret.op = "multi_heatmap_pivots" => FacetsMatchSingleGrids

\* The same for a batch of attribute-style results.
FacetsOfObjects ==
    (ret.op = "multi_heatmap_pivots" /\ AllObjects) => FacetsMatchSingleGrids

\* Two facet levels, one of them with a grid of one cell holding a mean.
FacetsReached ==
    /\ ret.op = "multi_heatmap_pivots"
    /\ AllObjects
    /\ DOMAIN ret.value = {1, 2}
    /\ ret.value[1].grid = <<(<<(<<5, 1>>)>>)>>
    /\ ret.value[2].rows = <<>>

\* ------------------------------- one record set in both access styles
MaxStyleRuns == 2

\* The records of a batch, written here in attribute style.
StyleResults ==
    {[style |-> "object", config |-> c,
      fields |-> [total_score |-> t, player10_individual_mean |-> p,
                  early_termination |-> 1],
      score_breakdown |-> NoBreakdown] :
        c \in {NoConfig} \cup
              {[kind |-> "object",
                fields |-> [altruism_prob |-> a, tau_margin |-> tm,
                            epsilon_fresh |-> 1, epsilon_mono |-> 1]] :
                  a \in {None, 1}, tm \in {1, 2}},
        t \in {None, 4}, p \in {None, 2}}

\* The way a caller presents the records: each result as an object
\* (SimpleNamespace, dataclass) or as a mapping (json.load), and its config
\* sub-record as an object or a mapping.
Presentations == [result : {"object", "mapping"}, config : {"object", "mapping"}]

Present(rs, how) ==
    [i \in 1..Len(rs) |->
        [rs[i] EXCEPT !.style = how.result,
                      !.config.kind = IF @ = "object" THEN how.config ELSE @]]

InitStyles ==
    /\ results \in Batches(StyleResults, MaxStyleRuns)
    /\ df = <<>>
    /\ args = NoArgs
    /\ gen = 0
    /\ calls = <<>>
    /\ ret = NoCall

\* The presentations of a call of op: the records as objects the first
\* time, any presentation after that.
AsObjects == [result |-> "object", config |-> "object"]

PresentationsFor(op) == IF op \in DOMAIN calls THEN Presentations ELSE {AsObjects}

\* The outcome of op on one presentation; calls keeps the first per op.
Presented(op, how, out) == [op |-> op, how |-> how, raised |-> out.raised, value |-> out]

StylesResultsToRecords ==
    \E how \in PresentationsFor("results_to_records") :
        LET call == Presented("results_to_records", how,
                              ResultsToRecords(Present(results, how)))
        IN  /\ ret' = call
            /\ calls' = Remember(call)
            /\ UNCHANGED <<results, df, args, gen>>

StylesHeatmapMatrix ==
    \E how \in PresentationsFor("heatmap_matrix") :
        LET call == Presented("heatmap_matrix", how,
                              HeatmapMatrix(Present(results, how), "altruism_prob",
                                            "tau_margin", "total_score"))
        IN  /\ ret' = call
            /\ calls' = Remember(call)
            /\ UNCHANGED <<results, df, args, gen>>

StylesParetoPoints ==
    \E how \in PresentationsFor("pareto_points") :
        LET call == Presented("pareto_points", how, ParetoPoints(Present(results, how)))
        IN  /\ ret' = call
            /\ calls' = Remember(call)
            /\ UNCHANGED <<results, df, args, gen>>

NextStyles ==
    \/ StylesResultsToRecords
    \/ StylesHeatmapMatrix
    \/ StylesParetoPoints

SpecStyles == InitStyles /\ [][NextStyles]_vars

\* ------------------------------------------------------------------ C16
\* The last call returned what the first call of the same operation did.
SameAsFirst == ret.op \in DOMAIN calls /\ ret.value = calls[ret.op].value

\* C16: results_to_records, heatmap_matrix and pareto_points return for the
\* records presented as mappings (config as an object or as a mapping) the
\* output they return for the same records presented as objects.
C16_AccessStyleBlind ==
    ret.op \in {"results_to_records", "heatmap_matrix", "pareto_points"} => SameAsFirst

\* results_to_records on its own does return the same records.
NormalizerStyleBlind == ret.op = "results_to_records" => SameAsFirst

\* heatmap_matrix and pareto_points do for results presented as objects,
\* whichever way config is presented.
ObjectResultsStyleBlind ==
    (ret.op \in {"heatmap_matrix", "pareto_points"} /\ ret.how.result = "object") =>
        SameAsFirst

\* Records normalised from mappings after objects, with a config value read.
StylesReached ==
    /\ ret.op = "results_to_records"
    /\ ret.how = [result |-> "mapping", config |-> "mapping"]
    /\ calls[ret.op].how = AsObjects
    /\ Len(ret.value.value) = 2
    /\ ret.value.value[1].altruism_prob = 1

====
